---- MODULE Spec2Model ----
(***************************************************************************)
(* Anthropic -> OpenAI request translation of claude-proxy                 *)
(* (formatRequest: mapModel, validateAnthropicMessage,                     *)
(* validateOpenAIToolCalls, formatAnthropicToOpenAI) and its /oai          *)
(* forwarding handler (oaiHandler: resolveProviderConfig,                  *)
(* shouldHandleOai, handleOaiIfMatch).                                     *)
(*                                                                         *)
(* body is the input of the operation a specification exercises, pc the    *)
(* position in it, result what it has computed so far.                     *)
(*                                                                         *)
(* JavaScript values are tagged records [t |-> <typeof-like tag>, ...];    *)
(* objects are records, and a property is undefined exactly when the       *)
(* field is not in the record's DOMAIN.  Strings that the code searches,   *)
(* concatenates or trims are sequences of one-character strings; strings   *)
(* that the code only compares (role, type, ids, names) are TLA+ strings.  *)
(***************************************************************************)
EXTENDS Integers, Sequences, FiniteSets, TLC

VARIABLES body, pc, result

vars == <<body, pc, result>>

----------------------------------------------------------------------------
(* JavaScript values *)

Undef == [t |-> "undefined"]

Null == [t |-> "null"]

Num == [t |-> "number"]

S(chars) == [t |-> "string", s |-> chars]

Arr(xs) == [t |-> "array", items |-> xs]

Obj(es) == [t |-> "object", entries |-> es]

\* o.f, undefined when the object has no such property
Get(o, f) == IF f \in DOMAIN o THEN o[f] ELSE Undef

\* ToBoolean of a tagged value
Truthy(v) ==
    CASE v.t = "undefined" -> FALSE
      [] v.t = "null" -> FALSE
      [] v.t = "string" -> v.s # <<>>
      [] OTHER -> TRUE

\* ToBoolean of o.f for a property held as a TLA+ string (role, type, id, name)
HasStr(o, f) == f \in DOMAIN o /\ o[f] # ""

\* String.prototype.includes
Includes(s, sub) ==
    \E i \in 0..(Len(s) - Len(sub)) : SubSeq(s, i + 1, i + Len(sub)) = sub

IsSpace(c) == c \in {" ", "\n", "\t"}

RECURSIVE TrimStart(_)
TrimStart(s) ==
    IF s # <<>> /\ IsSpace(Head(s)) THEN TrimStart(Tail(s)) ELSE s

RECURSIVE TrimEnd(_)
TrimEnd(s) ==
    IF s # <<>> /\ IsSpace(s[Len(s)]) THEN TrimEnd(SubSeq(s, 1, Len(s) - 1)) ELSE s

\* String.prototype.trim
Trim(s) == TrimEnd(TrimStart(s))

RECURSIVE JoinEntries(_, _)
JoinEntries(es, k) ==
    IF k > Len(es) THEN <<>>
    ELSE (IF k > 1 THEN <<",">> ELSE <<>>)
         \o <<"\"">> \o es[k].k \o <<"\"", ":", "\"">> \o es[k].v \o <<"\"">>
         \o JoinEntries(es, k + 1)

\* an object that refers to itself: JSON.stringify throws on it
Cyclic == [t |-> "object", cyclic |-> TRUE]

\* the catch branch of safeJsonStringify: taken when JSON.stringify throws
stringifyThrows(data) == data.t = "object" /\ "cyclic" \in DOMAIN data

\* the try branch of safeJsonStringify: JSON.stringify(data)
safeJsonStringify(data) ==
    CASE data.t = "string" -> <<"\"">> \o data.s \o <<"\"">>
      [] data.t = "object" -> <<"{">> \o JoinEntries(data.entries, 1) \o <<"}">>
      [] OTHER -> <<"n", "u", "l", "l">>

----------------------------------------------------------------------------
(* Model aliasing *)

KwHaiku == <<"h","a","i","k","u">>

KwSonnet == <<"s","o","n","n","e","t">>

KwOpus == <<"o","p","u","s">>

GlmAir == <<"z","-","a","i","/","g","l","m","-","4",".","5","-","a","i","r",":","f","r","e","e">>

GlmExacto == <<"z","-","a","i","/","g","l","m","-","4",".","6",":","e","x","a","c","t","o">>

Chimera == <<"t","n","g","t","e","c","h","/","d","e","e","p","s","e","e","k","-","r","1","t","2","-","c","h","i","m","e","r","a",":","f","r","e","e">>

\* mutant: the table lists opus first
MODEL_MAPPING_OpusFirst ==
    << [keyword |-> KwOpus, openRouterModel |-> Chimera],
       [keyword |-> KwHaiku, openRouterModel |-> GlmAir],
       [keyword |-> KwSonnet, openRouterModel |-> GlmExacto] >>

\* Object.entries(MODEL_MAPPING): own string keys in insertion order
MODEL_MAPPING ==
    << [keyword |-> KwHaiku, openRouterModel |-> GlmAir],
       [keyword |-> KwSonnet, openRouterModel |-> GlmExacto],
       [keyword |-> KwOpus, openRouterModel |-> Chimera] >>

\* the for-of loop of mapModel from table entry k on
RECURSIVE ScanMapping(_, _, _)
ScanMapping(table, anthropicModel, k) ==
    IF k > Len(table) THEN anthropicModel
    ELSE IF Includes(anthropicModel, table[k].keyword)
         THEN table[k].openRouterModel
         ELSE ScanMapping(table, anthropicModel, k + 1)

\* mutant: the keyword scan runs on namespaced identifiers too
mapModelNoNamespaceCheck(anthropicModel) ==
    ScanMapping(MODEL_MAPPING, anthropicModel, 1)

mapModel(anthropicModel) ==
    IF Includes(anthropicModel, <<"/">>) THEN anthropicModel
    ELSE ScanMapping(MODEL_MAPPING, anthropicModel, 1)

----------------------------------------------------------------------------
(* Exceptions: an operator that can throw returns one of these *)

NoError == [threw |-> FALSE]

\* new Error(text); part is the content-part index the text names, -1 if none
Throw(text, part) == [threw |-> TRUE, text |-> text, part |-> part]

\* a plain (untagged) object, as opposed to undefined, null, a string, ...
IsObject(x) == "t" \notin DOMAIN x

----------------------------------------------------------------------------
(* Shape validation of one source message *)

\* the body of the forEach callback of validateAnthropicMessage
validatePart(part, index) ==
    IF ~IsObject(part)
    THEN Throw("Content part must be a valid object", index)
    ELSE IF ~HasStr(part, "type")
    THEN Throw("Content part must have a valid type", index)
    ELSE CASE part.type = "text" ->
                IF Get(part, "text").t # "string"
                THEN Throw("Text content part must have a string text field", index)
                ELSE NoError
           [] part.type = "tool_use" ->
                IF ~HasStr(part, "id")
                THEN Throw("Tool_use content part must have a string id field", index)
                ELSE IF ~HasStr(part, "name")
                THEN Throw("Tool_use content part must have a string name field", index)
                ELSE IF Get(part, "input").t \notin {"object", "array"}
                THEN Throw("Tool_use content part must have an object input field", index)
                ELSE NoError
           [] part.type = "tool_result" ->
                IF ~HasStr(part, "tool_use_id")
                THEN Throw("Tool_result content part must have a string tool_use_id field", index)
                ELSE IF ~Truthy(Get(part, "content"))
                THEN Throw("Tool_result content part must have content", index)
                ELSE NoError
           [] OTHER -> Throw("Unknown content part type", index)

\* message.content.forEach(...) from part k on: the first throw ends it
RECURSIVE validateParts(_, _)
validateParts(parts, k) ==
    IF k > Len(parts) THEN NoError
    ELSE IF validatePart(parts[k], k - 1).threw THEN validatePart(parts[k], k - 1)
    ELSE validateParts(parts, k + 1)

\* mutant: only user and assistant messages have their parts checked
validateAnthropicMessageCoreRoles(message) ==
    IF ~IsObject(message)
    THEN Throw("Message must be a valid object", -1)
    ELSE IF ~HasStr(message, "role")
    THEN Throw("Message must have a valid role", -1)
    ELSE IF ~Truthy(Get(message, "content"))
    THEN Throw("Message must have content", -1)
    ELSE IF message.content.t = "array"
    THEN IF message.role \in {"user", "assistant"}
         THEN validateParts(message.content.items, 1)
         ELSE NoError
    ELSE IF message.content.t # "string"
    THEN Throw("Message content must be either a string or an array of content parts", -1)
    ELSE NoError

\* mutant: structured content is refused outside user and assistant messages
validateAnthropicMessageKnownRoles(message) ==
    IF ~IsObject(message)
    THEN Throw("Message must be a valid object", -1)
    ELSE IF ~HasStr(message, "role")
    THEN Throw("Message must have a valid role", -1)
    ELSE IF ~Truthy(Get(message, "content"))
    THEN Throw("Message must have content", -1)
    ELSE IF message.content.t = "array"
    THEN IF message.role \in {"user", "assistant"}
         THEN validateParts(message.content.items, 1)
         ELSE Throw("Message must have a valid role", -1)
    ELSE IF message.content.t # "string"
    THEN Throw("Message content must be either a string or an array of content parts", -1)
    ELSE NoError

validateAnthropicMessage(message) ==
    IF ~IsObject(message)
    THEN Throw("Message must be a valid object", -1)
    ELSE IF ~HasStr(message, "role")
    THEN Throw("Message must have a valid role", -1)
    ELSE IF ~Truthy(Get(message, "content"))
    THEN Throw("Message must have content", -1)
    ELSE IF message.content.t = "array"
    THEN validateParts(message.content.items, 1)
    ELSE IF message.content.t # "string"
    THEN Throw("Message content must be either a string or an array of content parts", -1)
    ELSE NoError

\* messages.forEach((message, index) => ...) from message k on: the index
\* (0-based, as in the error text) of the first message that throws, else -1
RECURSIVE validateMessages(_, _)
validateMessages(messages, k) ==
    IF k > Len(messages) THEN -1
    ELSE IF validateAnthropicMessage(messages[k]).threw THEN k - 1
    ELSE validateMessages(messages, k + 1)

----------------------------------------------------------------------------
(* Per-message expansion: the flatMap callback of formatAnthropicToOpenAI *)

\* contentPart.text as a string (a validated text part always holds a string)
PartText(contentPart) ==
    IF contentPart.text.t = "string" THEN contentPart.text.s
    ELSE safeJsonStringify(contentPart.text)

\* textContent / userTextMessageContent after the forEach, from part k on
RECURSIVE TextOf(_, _)
TextOf(parts, k) ==
    IF k > Len(parts) THEN <<>>
    ELSE (IF parts[k].type = "text" THEN PartText(parts[k]) \o <<"\n">> ELSE <<>>)
         \o TextOf(parts, k + 1)

\* toolCalls after the forEach, from part k on
RECURSIVE ToolCallsOf(_, _)
ToolCallsOf(parts, k) ==
    IF k > Len(parts) THEN <<>>
    ELSE (IF parts[k].type = "tool_use"
          THEN << [id |-> parts[k].id,
                   type |-> "function",
                   function_def |-> [name |-> parts[k].name,
                                     arguments |-> safeJsonStringify(parts[k].input)]] >>
          ELSE <<>>)
         \o ToolCallsOf(parts, k + 1)

\* subsequentToolMessages after the forEach, from part k on
RECURSIVE ToolMessagesOf(_, _)
ToolMessagesOf(parts, k) ==
    IF k > Len(parts) THEN <<>>
    ELSE (IF parts[k].type = "tool_result"
          THEN << [role |-> "tool",
                   tool_call_id |-> parts[k].tool_use_id,
                   content |-> S(IF parts[k].content.t = "string"
                                 THEN parts[k].content.s
                                 ELSE safeJsonStringify(parts[k].content))] >>
          ELSE <<>>)
         \o ToolMessagesOf(parts, k + 1)

\* the assistant branch
expandAssistant(parts) ==
    LET trimmedTextContent == Trim(TextOf(parts, 1))
        toolCalls == ToolCallsOf(parts, 1)
        content == IF Len(trimmedTextContent) > 0 THEN S(trimmedTextContent) ELSE Null
        assistantMessage ==
            IF Len(toolCalls) > 0
            THEN [role |-> "assistant", content |-> content, tool_calls |-> toolCalls]
            ELSE [role |-> "assistant", content |-> content]
    IN  IF Truthy(assistantMessage.content)
           \/ ("tool_calls" \in DOMAIN assistantMessage
               /\ Len(assistantMessage.tool_calls) > 0)
        THEN <<assistantMessage>>
        ELSE <<>>

\* mutant: the tool messages are emitted before the user text
expandUserToolsFirst(parts) ==
    LET trimmedUserText == Trim(TextOf(parts, 1))
    IN  ToolMessagesOf(parts, 1)
        \o (IF Len(trimmedUserText) > 0
            THEN << [role |-> "user", content |-> S(trimmedUserText)] >>
            ELSE <<>>)

\* the user branch
expandUser(parts) ==
    LET trimmedUserText == Trim(TextOf(parts, 1))
    IN  (IF Len(trimmedUserText) > 0
         THEN << [role |-> "user", content |-> S(trimmedUserText)] >>
         ELSE <<>>)
        \o ToolMessagesOf(parts, 1)

expandMessage(anthropicMessage) ==
    IF anthropicMessage.content.t # "array"
    THEN IF anthropicMessage.content.t = "string"
         THEN << [role |-> anthropicMessage.role, content |-> anthropicMessage.content] >>
         ELSE <<>>
    ELSE IF anthropicMessage.role = "assistant"
    THEN expandAssistant(anthropicMessage.content.items)
    ELSE IF anthropicMessage.role = "user"
    THEN expandUser(anthropicMessage.content.items)
    ELSE <<>>

\* messages.flatMap(expandMessage) from message k on
RECURSIVE flatMapMessages(_, _)
flatMapMessages(messages, k) ==
    IF k > Len(messages) THEN <<>>
    ELSE expandMessage(messages[k]) \o flatMapMessages(messages, k + 1)

----------------------------------------------------------------------------
(* Tool-call consistency validator *)

\* j after the while loop that collects immediateToolMessages, started at j
RECURSIVE RunEnd(_, _)
RunEnd(messages, j) ==
    IF j <= Len(messages) /\ messages[j].role = "tool"
    THEN RunEnd(messages, j + 1)
    ELSE j

\* mutant: matches any later tool message, not only the run directly after i
toolMessageMapAnyLater(messages, i) ==
    { messages[j].tool_call_id :
        j \in { n \in (i + 1)..Len(messages) :
                  messages[n].role = "tool" /\ HasStr(messages[n], "tool_call_id") } }

\* the keys of toolMessageMap for the assistant message at position i
toolMessageMap(messages, i) ==
    { messages[j].tool_call_id :
        j \in { n \in (i + 1)..(RunEnd(messages, i + 1) - 1) :
                  HasStr(messages[n], "tool_call_id") } }

\* toolCallIds: new Set(m.tool_calls.map(toolCall => toolCall.id))
toolCallIds(m) == { m.tool_calls[n].id : n \in 1..Len(m.tool_calls) }

\* the candidate reached by the backward for loop started at k; 0 when the
\* loop runs off the front of the array
RECURSIVE Candidate(_, _)
Candidate(messages, k) ==
    IF k < 1 THEN 0
    ELSE IF messages[k].role = "tool" THEN Candidate(messages, k - 1)
    ELSE k

\* mutant: only the message directly before the tool message is consulted
hasImmediateToolCallPrevOnly(messages, i) ==
    /\ i > 1
    /\ messages[i - 1].role = "assistant"
    /\ "tool_calls" \in DOMAIN messages[i - 1]
    /\ HasStr(messages[i], "tool_call_id")
    /\ messages[i].tool_call_id \in toolCallIds(messages[i - 1])

\* mutant: any earlier assistant message may own the tool message
hasImmediateToolCallAnyEarlier(messages, i) ==
    \E k \in 1..(i - 1) :
        /\ messages[k].role = "assistant"
        /\ "tool_calls" \in DOMAIN messages[k]
        /\ HasStr(messages[i], "tool_call_id")
        /\ messages[i].tool_call_id \in toolCallIds(messages[k])

\* hasImmediateToolCall for the tool message at position i
hasImmediateToolCall(messages, i) ==
    LET currentMessage == messages[i]
        matches(m) == HasStr(currentMessage, "tool_call_id")
                      /\ currentMessage.tool_call_id \in toolCallIds(m)
    IN  IF i > 1
        THEN LET prevMessage == messages[i - 1]
             IN  IF prevMessage.role = "assistant" /\ "tool_calls" \in DOMAIN prevMessage
                 THEN matches(prevMessage)
                 ELSE IF prevMessage.role = "tool"
                 THEN LET k == Candidate(messages, i - 1)
                      IN  IF k = 0 THEN FALSE
                          ELSE IF messages[k].role = "assistant"
                                  /\ "tool_calls" \in DOMAIN messages[k]
                          THEN matches(messages[k])
                          ELSE FALSE
                 ELSE FALSE
        ELSE FALSE

\* mutant: the assistant message is pushed even with nothing left in it
validateAssistantKeepsEmpty(messages, i) ==
    LET currentMessage == messages[i]
        ids == toolMessageMap(messages, i)
        validToolCalls == SelectSeq(currentMessage.tool_calls, LAMBDA c : c.id \in ids)
    IN  IF Len(validToolCalls) > 0
        THEN << [currentMessage EXCEPT !.tool_calls = validToolCalls] >>
        ELSE << [f \in DOMAIN currentMessage \ {"tool_calls"} |-> currentMessage[f]] >>

\* what the assistant branch pushes for the message at position i
validateAssistant(messages, i) ==
    LET currentMessage == messages[i]
        ids == toolMessageMap(messages, i)
        validToolCalls == SelectSeq(currentMessage.tool_calls, LAMBDA c : c.id \in ids)
        updated ==
            IF Len(validToolCalls) > 0
            THEN [currentMessage EXCEPT !.tool_calls = validToolCalls]
            ELSE [f \in DOMAIN currentMessage \ {"tool_calls"} |-> currentMessage[f]]
    IN  IF Truthy(Get(updated, "content")) \/ "tool_calls" \in DOMAIN updated
        THEN <<updated>>
        ELSE <<>>

\* mutant: the as-is branch also runs after the assistant branch
validateAtMissingElse(messages, i) ==
    IF messages[i].role = "assistant" /\ "tool_calls" \in DOMAIN messages[i]
    THEN validateAssistant(messages, i) \o <<messages[i]>>
    ELSE IF messages[i].role = "tool"
    THEN IF hasImmediateToolCall(messages, i) THEN <<messages[i]>> ELSE <<>>
    ELSE <<messages[i]>>

\* one iteration of the for loop: what it pushes onto validatedMessages
validateAt(messages, i) ==
    IF messages[i].role = "assistant" /\ "tool_calls" \in DOMAIN messages[i]
    THEN validateAssistant(messages, i)
    ELSE IF messages[i].role = "tool"
    THEN IF hasImmediateToolCall(messages, i) THEN <<messages[i]>> ELSE <<>>
    ELSE <<messages[i]>>

\* validatedMessages built by iterations i..messages.length
RECURSIVE validateFrom(_, _)
validateFrom(messages, i) ==
    IF i > Len(messages) THEN <<>>
    ELSE validateAt(messages, i) \o validateFrom(messages, i + 1)

validateOpenAIToolCalls(messages) == validateFrom(messages, 1)

----------------------------------------------------------------------------
(* The translator *)

Claude == <<"c","l","a","u","d","e">>

\* one system text part; model is the request's model string
systemContentPart(text, model) ==
    IF Includes(model, Claude)
    THEN [type |-> "text", text |-> text, cache_control |-> [type |-> "ephemeral"]]
    ELSE [type |-> "text", text |-> text]

\* mutant: all segments become the parts of one system message
systemMessagesOneMessage(system, model) ==
    IF system.t = "array"
    THEN << [role |-> "system",
             content |-> Arr([k \in 1..Len(system.items) |->
                                systemContentPart(Get(system.items[k], "text"), model)])] >>
    ELSE << [role |-> "system",
             content |-> Arr(<<systemContentPart(system, model)>>)] >>

\* systemMessages; system already carries the destructuring default
systemMessages(system, model) ==
    IF system.t = "array"
    THEN [k \in 1..Len(system.items) |->
            [role |-> "system",
             content |-> Arr(<<systemContentPart(Get(system.items[k], "text"), model)>>)]]
    ELSE << [role |-> "system",
             content |-> Arr(<<systemContentPart(system, model)>>)] >>

\* the own properties of the object literal modelProviderConfigs
modelProviderConfigs ==
    (GlmExacto :> [only |-> <<"z-ai">>,
                   ignore |-> <<"deepinfra", "chutes", "novita">>,
                   allow_fallbacks |-> FALSE,
                   data_collection |-> "deny",
                   zdr |-> TRUE])
    @@ (GlmAir :> [only |-> <<"z-ai">>,
                   ignore |-> <<"deepinfra", "chutes", "novita">>,
                   allow_fallbacks |-> FALSE])
    @@ (Chimera :> [only |-> <<"chutes">>,
                    ignore |-> <<"deepinfra", "novita">>,
                    allow_fallbacks |-> FALSE])

\* names every object literal inherits from Object.prototype (some of them)
ObjectPrototypeKeys ==
    { <<"c","o","n","s","t","r","u","c","t","o","r">>,
      <<"t","o","S","t","r","i","n","g">>,
      <<"v","a","l","u","e","O","f">> }

\* table[key] on an object literal: an own property, else one inherited from
\* Object.prototype, else undefined
PropertyLookup(table, key) ==
    IF key \in DOMAIN table THEN table[key]
    ELSE IF key \in ObjectPrototypeKeys THEN [t |-> "function", name |-> key]
    ELSE Undef

\* mutant: the declarations come out in reverse order
convertToolsReversed(tools) ==
    [k \in 1..Len(tools) |->
        [type |-> "function",
         function |-> [name |-> Get(tools[Len(tools) + 1 - k], "name"),
                       description |-> Get(tools[Len(tools) + 1 - k], "description"),
                       parameters |-> Get(tools[Len(tools) + 1 - k], "input_schema")]]]

\* tools.map(item => ({type: "function", function: {...}}))
convertTools(tools) ==
    [k \in 1..Len(tools) |->
        [type |-> "function",
         function |-> [name |-> Get(tools[k], "name"),
                       description |-> Get(tools[k], "description"),
                       parameters |-> Get(tools[k], "input_schema")]]]

\* mutant: the Chimera branch forgets to remove the tool messages
stripToolCallsKeepTool(message) ==
    IF message.role = "assistant" /\ "tool_calls" \in DOMAIN message
    THEN [f \in DOMAIN message \ {"tool_calls"} |-> message[f]]
    ELSE message

\* the map callback of the Chimera branch
stripToolCalls(message) ==
    IF message.role = "assistant" /\ "tool_calls" \in DOMAIN message
    THEN [f \in DOMAIN message \ {"tool_calls"} |-> message[f]]
    ELSE IF message.role = "tool" THEN Null
    ELSE message

\* [...].map(stripToolCalls).filter(Boolean) from message k on
RECURSIVE stripAll(_, _)
stripAll(messages, k) ==
    IF k > Len(messages) THEN <<>>
    ELSE (IF IsObject(stripToolCalls(messages[k]))
          THEN <<stripToolCalls(messages[k])>>
          ELSE <<>>)
         \o stripAll(messages, k + 1)

\* finalMessages
finalMessages(isChimera, sysMsgs, openAIMessages) ==
    IF isChimera
    THEN stripAll(sysMsgs \o openAIMessages, 1)
    ELSE sysMsgs \o validateOpenAIToolCalls(openAIMessages)

\* whether the flatMap callback throws on this message: the assistant branch
\* stringifies every tool_use input, the user branch every tool_result
\* content that is not a string
expandThrows(m) ==
    /\ m.content.t = "array"
    /\ \E k \in 1..Len(m.content.items) :
         LET part == m.content.items[k]
         IN  \/ /\ m.role = "assistant"
                 /\ part.type = "tool_use"
                 /\ stringifyThrows(part.input)
             \/ /\ m.role = "user"
                 /\ part.type = "tool_result"
                 /\ part.content.t # "string"
                 /\ stringifyThrows(part.content)

\* the part of formatAnthropicToOpenAI after the three checks of the body
translate(b) ==
    LET model == b.model.s
        messages == b.messages.items
        system == IF Get(b, "system").t = "undefined" THEN Arr(<<>>) ELSE b.system
        tools == Get(b, "tools")
        bad == validateMessages(messages, 1)
        openAIMessages == flatMapMessages(messages, 1)
        sysMsgs == systemMessages(system, model)
        mappedModel == mapModel(model)
        isChimera == mappedModel = Chimera
        provider == PropertyLookup(modelProviderConfigs, mappedModel)
        data == [model |-> mappedModel,
                 messages |-> finalMessages(isChimera, sysMsgs, openAIMessages),
                 temperature |-> Get(b, "temperature"),
                 stream |-> Get(b, "stream")]
                @@ (IF IsObject(provider) \/ Truthy(provider)
                    THEN [provider |-> provider] ELSE <<>>)
                @@ (IF Truthy(tools) /\ ~isChimera
                    THEN [tools |-> convertTools(tools.items)] ELSE <<>>)
    IN  IF bad >= 0
        THEN [threw |-> TRUE, text |-> "Invalid message at index", index |-> bad,
              cause |-> validateAnthropicMessage(messages[bad + 1])]
        ELSE IF \E k \in 1..Len(messages) : expandThrows(messages[k])
        THEN [threw |-> TRUE, text |-> "Failed to stringify", index |-> -1]
        ELSE [threw |-> FALSE, value |-> data]

formatAnthropicToOpenAI(b) ==
    IF ~IsObject(b) /\ ~Truthy(b)
    THEN [threw |-> TRUE, text |-> "Request body is required", index |-> -1]
    ELSE IF ~Truthy(Get(b, "model")) \/ Get(b, "model").t # "string"
    THEN [threw |-> TRUE, text |-> "Model is required and must be a string", index |-> -1]
    ELSE IF Get(b, "messages").t # "array"
    THEN [threw |-> TRUE, text |-> "Messages must be an array", index |-> -1]
    ELSE translate(b)

----------------------------------------------------------------------------
(* Requests *)

MaxMsgs == 3

MaxModelLen == 11

MaxSegs == 2

Hi == <<"h", "i">>

TextPart(chars) == [type |-> "text", text |-> S(chars)]

ToolUse(id) ==
    [type |-> "tool_use", id |-> id, name |-> "search",
     input |-> Obj(<<[k |-> <<"q">>, v |-> <<"x">>]>>)]

ToolResult(id) ==
    [type |-> "tool_result", tool_use_id |-> id,
     content |-> S(<<"r", "e", "s", "u", "l", "t">>)]

ToolResultObject(id) ==
    [type |-> "tool_result", tool_use_id |-> id,
     content |-> Obj(<<[k |-> <<"o", "k">>, v |-> <<"1">>]>>)]

Message(role, parts) == [role |-> role, content |-> Arr(parts)]

\* source messages that pass shape validation
SourceMessages ==
    { [role |-> "user", content |-> S(Hi)],
      [role |-> "assistant", content |-> S(Hi)],
      [role |-> "tool", content |-> S(Hi)],
      Message("system", <<TextPart(Hi)>>),
      Message("assistant", <<ToolUse("t1")>>),
      Message("assistant", <<TextPart(Hi), ToolUse("t1"), ToolUse("t2")>>),
      Message("assistant", <<TextPart(<<" ">>), ToolUse("t2")>>),
      Message("user", <<ToolResult("t1")>>),
      Message("user", <<ToolResultObject("t2"), ToolResult("t1")>>),
      Message("user", <<TextPart(Hi), ToolResult("t1")>>),
      Message("user", <<TextPart(<<" ">>), ToolResult("t2")>>) }

ModelNames ==
    { <<"c","l","a","u","d","e","-","3","-","o","p","u","s">>,
      <<"c","l","a","u","d","e","-","3","-","h","a","i","k","u">>,
      <<"h","a","i","k","u">>,
      <<"c","u","s","t","o","m","-","p","r","o","v","i","d","e","r","/","c","u","s","t","o","m","-","m","o","d","e","l">>,
      <<"c","o","n","s","t","r","u","c","t","o","r">>,
      GlmExacto }

Segment(chars) == [text |-> S(chars)]

ToolSchema == [name |-> S(<<"s","e","a","r","c","h">>),
               description |-> S(<<"f","i","n","d">>),
               input_schema |-> Obj(<<>>)]

\* a request with optional system and tools
Request(model, system, tools) ==
    [model |-> S(model), messages |-> Arr(<<>>)]
    @@ (IF system.t = "undefined" THEN <<>> ELSE [system |-> system])
    @@ (IF tools.t = "undefined" THEN <<>> ELSE [tools |-> tools])

Init ==
    /\ body \in { Request(m, sys, tools) :
                    m \in ModelNames,
                    sys \in {Undef, S(Hi)},
                    tools \in {Undef, Arr(<<ToolSchema>>)} }
    /\ pc = "build"
    /\ result = Undef

\* the caller appends one message to the conversation
AddMessage(pool) ==
    /\ pc = "build"
    /\ IsObject(body)
    /\ Get(body, "messages").t = "array"
    /\ Len(body.messages.items) < MaxMsgs
    /\ \E m \in pool :
         body' = [body EXCEPT !.messages = Arr(Append(@.items, m))]
    /\ UNCHANGED <<pc, result>>

\* formatAnthropicToOpenAI(body)
Translate ==
    /\ pc = "build"
    /\ result' = formatAnthropicToOpenAI(body)
    /\ pc' = "done"
    /\ UNCHANGED body

Next == AddMessage(SourceMessages) \/ Translate

Spec == Init /\ [][Next]_vars

Returned == pc = "done" /\ ~result.threw

----------------------------------------------------------------------------
(* Properties of the returned payload *)

\* positions of the contiguous run of tool messages directly after position i
RunAfter(msgs, i) ==
    { j \in (i + 1)..Len(msgs) : \A k \in (i + 1)..j : msgs[k].role = "tool" }

HasInvocations(m) == "tool_calls" \in DOMAIN m /\ Len(m.tool_calls) > 0

InvocationIds(m) ==
    IF "tool_calls" \in DOMAIN m
    THEN { m.tool_calls[n].id : n \in 1..Len(m.tool_calls) }
    ELSE {}

\* no invocation without a result in the run after it, no result without an
\* invocation on the assistant message before its run
NoOrphan(msgs) ==
    /\ \A i \in 1..Len(msgs) :
         msgs[i].role = "assistant" =>
           \A id \in InvocationIds(msgs[i]) :
             \E j \in RunAfter(msgs, i) : Get(msgs[j], "tool_call_id") = id
    /\ \A j \in 1..Len(msgs) :
         msgs[j].role = "tool" =>
           \E i \in 1..(j - 1) :
             /\ msgs[i].role = "assistant"
             /\ j \in RunAfter(msgs, i)
             /\ "tool_call_id" \in DOMAIN msgs[j]
             /\ msgs[j].tool_call_id \in InvocationIds(msgs[i])

\* C1: for a model that does not alias to the no-tool-support model, every
\* invocation id left on an assistant message of the returned payload is the
\* tool_call_id of a tool message in the run of tool messages directly after
\* it, and every tool message answers an invocation of the assistant message
\* directly before its run.
C1_NoOrphan ==
    (Returned /\ result.value.model # Chimera) => NoOrphan(result.value.messages)

\* a tool-capable request from which the validator dropped something and in
\* which a matched invocation and its result were kept
C1_Witness ==
    /\ Returned
    /\ result.value.model # Chimera
    /\ \E i \in 1..Len(result.value.messages) :
         /\ HasInvocations(result.value.messages[i])
         /\ RunAfter(result.value.messages, i) # {}
    /\ Len(validateOpenAIToolCalls(flatMapMessages(body.messages.items, 1)))
         < Len(flatMapMessages(body.messages.items, 1))

\* C2: no assistant message of the returned payload has both null or absent
\* content and an absent or empty invocation list, whatever the model.
C2_ContentEmptiness ==
    Returned =>
      \A i \in 1..Len(result.value.messages) :
        result.value.messages[i].role = "assistant" =>
          \/ Truthy(Get(result.value.messages[i], "content"))
          \/ HasInvocations(result.value.messages[i])

SourceParts(m) == IF m.content.t = "array" THEN m.content.items ELSE <<>>

HasToolUse(m, id) ==
    \E n \in 1..Len(SourceParts(m)) :
      SourceParts(m)[n].type = "tool_use" /\ SourceParts(m)[n].id = id

HasToolResult(m, id) ==
    \E n \in 1..Len(SourceParts(m)) :
      SourceParts(m)[n].type = "tool_result" /\ SourceParts(m)[n].tool_use_id = id

\* an assistant source message with tool_use id directly followed by a user
\* source message with a tool_result for id
MatchedPair(src, k, id) ==
    /\ k < Len(src)
    /\ src[k].role = "assistant" /\ HasToolUse(src[k], id)
    /\ src[k + 1].role = "user" /\ HasToolResult(src[k + 1], id)

\* C3: for a model that supports tools, a tool_use X directly followed by a
\* user message with a tool_result for X leaves invocation X on an assistant
\* message and a tool message with tool_call_id X in the payload, whatever
\* else the user message holds.
C3_MatchedSurvive ==
    (Returned /\ result.value.model # Chimera) =>
      \A k \in 1..Len(body.messages.items) : \A id \in {"t1", "t2"} :
        MatchedPair(body.messages.items, k, id) =>
          /\ \E i \in 1..Len(result.value.messages) :
               /\ result.value.messages[i].role = "assistant"
               /\ id \in InvocationIds(result.value.messages[i])
          /\ \E j \in 1..Len(result.value.messages) :
               /\ result.value.messages[j].role = "tool"
               /\ Get(result.value.messages[j], "tool_call_id") = id

\* C4: when the model aliases to the no-tool-support model the payload has no
\* tools field, no tool message and no assistant message with an invocation
\* list, whatever tool declarations and tool parts the request had.
C4_CapabilityStripping ==
    (Returned /\ mapModel(body.model.s) = Chimera) =>
      /\ "tools" \notin DOMAIN result.value
      /\ \A i \in 1..Len(result.value.messages) :
           /\ result.value.messages[i].role # "tool"
           /\ "tool_calls" \notin DOMAIN result.value.messages[i]

\* a request for the no-tool-support model that declared tools and held an
\* invocation and its result
C4_Witness ==
    /\ Returned
    /\ result.value.model = Chimera
    /\ Includes(body.model.s, KwOpus) /\ ~Includes(body.model.s, <<"/">>)
    /\ "tools" \in DOMAIN body
    /\ \E k \in 1..Len(body.messages.items) : \E id \in {"t1", "t2"} :
         MatchedPair(body.messages.items, k, id)

\* C10: the payload has a provider field exactly when the aliased model is a
\* key of the translator's static directive table, and then the field is that
\* table entry.
C10_ProviderIffTableKey ==
    Returned =>
      /\ "provider" \in DOMAIN result.value
           <=> result.value.model \in DOMAIN modelProviderConfigs
      /\ "provider" \in DOMAIN result.value
           => result.value.provider = modelProviderConfigs[result.value.model]

----------------------------------------------------------------------------
(* Model aliasing on its own: identifiers put together from fragments *)

ModelFragments == { KwHaiku, KwSonnet, KwOpus, <<"/">>, <<"-">>, <<"k", "u">> }

InitMap ==
    /\ body = [model |-> S(<<>>)]
    /\ pc = "build"
    /\ result = Undef

\* the caller's identifier grows by one fragment
AppendFragment ==
    /\ pc = "build"
    /\ \E f \in ModelFragments :
         /\ Len(body.model.s) + Len(f) <= MaxModelLen
         /\ body' = [body EXCEPT !.model = S(@.s \o f)]
    /\ UNCHANGED <<pc, result>>

\* mapModel(body.model); the function has no throw and calls only includes
CallMapModel ==
    /\ pc = "build"
    /\ result' = [threw |-> FALSE, value |-> mapModel(body.model.s)]
    /\ pc' = "done"
    /\ UNCHANGED body

NextMap == AppendFragment \/ CallMapModel

SpecMap == InitMap /\ [][NextMap]_vars

\* C8: an identifier that contains "/" is returned unchanged, also when it
\* contains one of the keywords.
C8_NamespacedUnchanged ==
    (pc = "done" /\ Includes(body.model.s, <<"/">>)) =>
      (~result.threw /\ result.value = body.model.s)

\* a namespaced identifier that holds a keyword
C8_Witness ==
    /\ pc = "done"
    /\ Includes(body.model.s, <<"/">>)
    /\ Includes(body.model.s, KwOpus)
    /\ result.value = body.model.s

\* C9: for an identifier without "/", the result is the target of the first
\* of haiku, sonnet, opus (in that order) that occurs in it, wherever the
\* keywords stand; with no keyword the identifier is returned unchanged; it
\* never raises.
C9_KeywordPrecedence ==
    (pc = "done" /\ ~Includes(body.model.s, <<"/">>)) =>
      /\ ~result.threw
      /\ result.value =
           IF Includes(body.model.s, KwHaiku) THEN GlmAir
           ELSE IF Includes(body.model.s, KwSonnet) THEN GlmExacto
           ELSE IF Includes(body.model.s, KwOpus) THEN Chimera
           ELSE body.model.s

\* opus stands before haiku in the identifier and haiku's target is returned
C9_Witness ==
    /\ pc = "done"
    /\ ~Includes(body.model.s, <<"/">>)
    /\ \E i \in 1..Len(body.model.s) :
         /\ SubSeq(body.model.s, 1, i) = KwOpus
         /\ Includes(SubSeq(body.model.s, i + 1, Len(body.model.s)), KwHaiku)
    /\ result.value = GlmAir

----------------------------------------------------------------------------
(* The system prompt: requests with every shape of the system field *)

Sys == <<"s", "y", "s">>

SystemValues == { Undef, Null, S(<<>>), S(Sys), Arr(<<>>) }

SegmentTexts == { <<>>, Hi, Sys }

\* conversation messages that follow the system messages in the payload
FollowingMessages ==
    { [role |-> "system", content |-> S(Hi)],
      [role |-> "user", content |-> S(Hi)],
      Message("system", <<TextPart(Hi)>>) }

InitSystem ==
    /\ body \in { Request(m, sys, Undef) : m \in ModelNames, sys \in SystemValues }
    /\ pc = "build"
    /\ result = Undef

\* the caller appends one segment to a system prompt given as a sequence
AddSegment ==
    /\ pc = "build"
    /\ Get(body, "system").t = "array"
    /\ Len(body.system.items) < MaxSegs
    /\ \E text \in SegmentTexts :
         body' = [body EXCEPT !.system = Arr(Append(@.items, Segment(text)))]
    /\ UNCHANGED <<pc, result>>

NextSystem == AddSegment \/ AddMessage(FollowingMessages) \/ Translate

SpecSystem == InitSystem /\ [][NextSystem]_vars

\* a system message built from the prompt: one text part carrying text
IsPromptMessage(m, text) ==
    /\ m.role = "system"
    /\ m.content.t = "array"
    /\ Len(m.content.items) = 1
    /\ m.content.items[1].type = "text"
    /\ m.content.items[1].text = text

\* msgs starts with exactly the system messages for texts, in order; the
\* messages after them come from the conversation (string or null content)
StartsWithSystem(msgs, texts) ==
    /\ Len(msgs) >= Len(texts)
    /\ \A k \in 1..Len(texts) : IsPromptMessage(msgs[k], texts[k])
    /\ \A k \in (Len(texts) + 1)..Len(msgs) : msgs[k].content.t # "array"

SegmentTextsOf(system) ==
    [k \in 1..Len(system.items) |-> Get(system.items[k], "text")]

\* C5 as stated: n segments give exactly n leading system messages, one text
\* part each, in segment order; a single value - a string, an empty string
\* or an absent prompt - gives exactly one.
C5_SystemConstruction ==
    Returned =>
      IF Get(body, "system").t = "array"
      THEN StartsWithSystem(result.value.messages, SegmentTextsOf(body.system))
      ELSE /\ Len(result.value.messages) >= 1
           /\ result.value.messages[1].role = "system"
           /\ result.value.messages[1].content.t = "array"
           /\ \A k \in 2..Len(result.value.messages) :
                result.value.messages[k].content.t # "array"

\* C5 amended: n segments give exactly n leading system messages, one text
\* part each, in segment order; a single value that is present (a string, an
\* empty string, null) gives exactly one, carrying that value; an absent
\* prompt gives none.
C5_SystemConstructionAmended ==
    Returned =>
      StartsWithSystem(
        result.value.messages,
        CASE Get(body, "system").t = "array" -> SegmentTextsOf(body.system)
          [] Get(body, "system").t = "undefined" -> <<>>
          [] OTHER -> <<body.system>>)

\* two segments with different texts, followed by conversation messages
C5_Witness ==
    /\ Returned
    /\ Get(body, "system").t = "array"
    /\ Len(body.system.items) = 2
    /\ body.system.items[1] # body.system.items[2]
    /\ Len(result.value.messages) > 2

\* whether each system text part of a payload carries the cache marker
Markers(payload) ==
    UNION { { ("cache_control" \in DOMAIN payload.messages[k].content.items[n]) :
                n \in 1..Len(payload.messages[k].content.items) } :
            k \in { i \in 1..Len(payload.messages) :
                      payload.messages[i].content.t = "array" } }

\* C6: the cache marker is decided by the target model: a conversation that
\* differs only in a model aliasing to the same target has the marker on
\* every system text part or on none, as this one has.
C6_CacheFollowsTarget ==
    Returned =>
      \A other \in ModelNames :
        mapModel(other) = result.value.model =>
          Cardinality(Markers(result.value)
                      \cup Markers(translate([body EXCEPT !.model = S(other)]).value)) <= 1

----------------------------------------------------------------------------
(* Validation: requests and messages of every shape *)

\* messages that fail shape validation, with roles of every kind
MalformedMessages ==
    { Null,
      [content |-> S(Hi)],
      [role |-> "system"],
      [role |-> "user", content |-> S(<<>>)],
      [role |-> "user", content |-> Num],
      Message("tool", <<[type |-> "image"]>>),
      Message("user", <<TextPart(Hi), [text |-> S(Hi)]>>),
      Message("system", <<[type |-> "text"]>>),
      Message("assistant", <<[type |-> "tool_use", name |-> "search", input |-> Obj(<<>>)]>>),
      Message("tool", <<[type |-> "tool_use", id |-> "t1", input |-> Obj(<<>>)]>>),
      Message("assistant", <<[type |-> "tool_use", id |-> "t1", name |-> "search"]>>),
      Message("user", <<[type |-> "tool_result", content |-> S(Hi)]>>),
      Message("system", <<[type |-> "tool_result", tool_use_id |-> "t1", content |-> S(<<>>)]>>) }

WellFormedMessages ==
    { [role |-> "user", content |-> S(Hi)],
      Message("assistant", <<ToolUse("t1")>>),
      Message("tool", <<TextPart(<<>>)>>) }

\* request bodies: absent, or with each kind of model and messages field
RequestBodies ==
    { Undef, Null }
    \cup { (IF model.t = "undefined" THEN <<>> ELSE [model |-> model])
           @@ (IF messages.t = "undefined" THEN <<>> ELSE [messages |-> messages]) :
             model \in {Undef, Num, S(<<>>), S(KwHaiku)},
             messages \in {Undef, Obj(<<>>), Arr(<<>>)} }

InitValidation ==
    /\ body \in RequestBodies
    /\ pc = "build"
    /\ result = Undef

NextValidation == AddMessage(MalformedMessages \cup WellFormedMessages) \/ Translate

SpecValidation == InitValidation /\ [][NextValidation]_vars

\* the fields a content part needs for its type tag
PartShapeOK(part) ==
    /\ IsObject(part)
    /\ "type" \in DOMAIN part
    /\ part.type \in {"text", "tool_use", "tool_result"}
    /\ part.type = "text" => Get(part, "text").t = "string"
    /\ part.type = "tool_use" =>
         /\ HasStr(part, "id")
         /\ HasStr(part, "name")
         /\ Get(part, "input").t \in {"object", "array"}
    /\ part.type = "tool_result" =>
         /\ HasStr(part, "tool_use_id")
         /\ Truthy(Get(part, "content"))

\* a source message with a role, content, and well-shaped parts
MessageShapeOK(message) ==
    /\ IsObject(message)
    /\ HasStr(message, "role")
    /\ Truthy(Get(message, "content"))
    /\ Get(message, "content").t \in {"string", "array"}
    /\ Get(message, "content").t = "array" =>
         \A n \in 1..Len(message.content.items) : PartShapeOK(message.content.items[n])

BodyAbsent == ~IsObject(body)

ModelMissing ==
    ~BodyAbsent /\ (Get(body, "model").t # "string" \/ Get(body, "model").s = <<>>)

MessagesNotSequence == ~BodyAbsent /\ Get(body, "messages").t # "array"

Offending ==
    IF BodyAbsent \/ MessagesNotSequence THEN {}
    ELSE { k \in 1..Len(body.messages.items) : ~MessageShapeOK(body.messages.items[k]) }

\* C7: the call raises and returns no payload when the body is absent, the
\* model is missing or no string, messages is no sequence, or a message of
\* any role fails shape validation; for a message failure the error names
\* the (0-based) index of the first offending message.
C7_RejectsBeforeTranslating ==
    pc = "done" =>
      /\ (BodyAbsent \/ ModelMissing \/ MessagesNotSequence \/ Offending # {})
           => (result.threw /\ "value" \notin DOMAIN result)
      /\ (~BodyAbsent /\ ~ModelMissing /\ ~MessagesNotSequence /\ Offending # {})
           => /\ result.text = "Invalid message at index"
              /\ \A k \in Offending : result.index + 1 <= k
              /\ result.index + 1 \in Offending

\* two offending messages after a well-formed one, the first of them with a
\* role other than user and assistant; the error names that one
C7_Witness ==
    /\ pc = "done"
    /\ ~BodyAbsent /\ ~ModelMissing /\ ~MessagesNotSequence
    /\ Cardinality(Offending) = 2
    /\ 1 \notin Offending
    /\ result.threw
    /\ result.index = 1
    /\ HasStr(body.messages.items[2], "role")
    /\ body.messages.items[2].role \in {"system", "tool"}

----------------------------------------------------------------------------
(* Tool declarations (C14) *)

MaxTools == 2

FetchSchema == [name |-> S(<<"f","e","t","c","h">>),
                description |-> S(<<"g","e","t">>),
                input_schema |-> Obj(<<[k |-> <<"u","r","l">>, v |-> <<"s">>]>>)]

\* the declarations a request may carry
ToolSchemas == {ToolSchema, FetchSchema}

\* messages whose tool calls and results the consistency pass removes or keeps
ToolTraffic ==
    { Message("assistant", <<ToolUse("t1")>>),
      Message("user", <<ToolResult("t1")>>),
      Message("user", <<ToolResult("t2")>>) }

InitTools ==
    /\ body \in { Request(m, Undef, tools) :
                    m \in ModelNames, tools \in {Undef, Arr(<<>>)} }
    /\ pc = "build"
    /\ result = Undef

\* the caller declares one more tool
AddTool ==
    /\ pc = "build"
    /\ "tools" \in DOMAIN body
    /\ Len(body.tools.items) < MaxTools
    /\ \E schema \in ToolSchemas :
         body' = [body EXCEPT !.tools = Arr(Append(@.items, schema))]
    /\ UNCHANGED <<pc, result>>

NextTools == AddTool \/ AddMessage(ToolTraffic) \/ Translate

SpecTools == InitTools /\ [][NextTools]_vars

\* C14: when the request declares tools and the aliased model is not
\* the tool-less one, the payload's tools field holds one function
\* declaration per source declaration, in the same order, with the same
\* name, description and input shape, whatever happened to the messages
C14_ToolsPreserved ==
    (Returned /\ "tools" \in DOMAIN body /\ result.value.model # Chimera) =>
        /\ "tools" \in DOMAIN result.value
        /\ Len(result.value.tools) = Len(body.tools.items)
        /\ \A k \in 1..Len(body.tools.items) :
             LET source == body.tools.items[k]
                 target == result.value.tools[k]
             IN  /\ target.type = "function"
                 /\ target.function.name = source.name
                 /\ target.function.description = source.description
                 /\ target.function.parameters = source.input_schema

\* two different declarations are carried over while an orphan tool
\* result is removed from the messages
C14_Witness ==
    /\ Returned
    /\ "tools" \in DOMAIN body
    /\ Len(body.tools.items) = 2
    /\ body.tools.items[1] # body.tools.items[2]
    /\ "tools" \in DOMAIN result.value
    /\ Len(result.value.tools) = 2
    /\ Len(body.messages.items) > Len(result.value.messages)

----------------------------------------------------------------------------
(* Silent adjustment (C15) *)

\* conversations with mismatched tool traffic, structured content in other
\* roles, values JSON.stringify refuses, and one message without content
PolicyMessages ==
    { Message("assistant", <<ToolUse("t1")>>),
      Message("user", <<ToolResult("t2")>>),
      Message("system", <<TextPart(Hi), ToolUse("t1")>>),
      Message("assistant", <<[ToolUse("t2") EXCEPT !.input = Cyclic]>>),
      Message("user", <<[ToolResult("t1") EXCEPT !.content = Cyclic]>>),
      [role |-> "tool"] }

InitPolicy ==
    /\ body \in { Request(m, Undef, Undef) : m \in ModelNames }
    /\ pc = "build"
    /\ result = Undef

NextPolicy == AddMessage(PolicyMessages) \/ Translate

SpecPolicy == InitPolicy /\ [][NextPolicy]_vars

\* every tool input and tool result of the conversation can be serialised
Serializable(messages) ==
    \A k \in 1..Len(messages) :
        ("content" \in DOMAIN messages[k] /\ messages[k].content.t = "array") =>
            \A j \in 1..Len(messages[k].content.items) :
                LET part == messages[k].content.items[j]
                IN  /\ part.type = "tool_use" => part.input # Cyclic
                    /\ part.type = "tool_result" => part.content # Cyclic

----------------------------------------------------------------------------
(* Per-message expansion (C19) *)

MaxParts == 3

SourceRoles == {"user", "assistant", "system", "tool"}

ContentParts ==
    { TextPart(Hi), TextPart(<<" ">>), ToolUse("t1"),
      ToolResult("t1"), ToolResultObject("t2") }

\* one validated source message: plain text, or structured and still empty
InitExpand ==
    /\ body \in { [role |-> r, content |-> c] :
                    r \in SourceRoles, c \in {S(Hi), Arr(<<>>)} }
    /\ pc = "build"
    /\ result = Undef

\* the caller appends one part to the structured content
AddPart ==
    /\ pc = "build"
    /\ body.content.t = "array"
    /\ Len(body.content.items) < MaxParts
    /\ \E part \in ContentParts :
         body' = [body EXCEPT !.content = Arr(Append(@.items, part))]
    /\ UNCHANGED <<pc, result>>

\* one call of the flatMap callback
Expand ==
    /\ pc = "build"
    /\ result' = [threw |-> FALSE, value |-> expandMessage(body)]
    /\ pc' = "done"
    /\ UNCHANGED body

NextExpand == AddPart \/ Expand

SpecExpand == InitExpand /\ [][NextExpand]_vars

\* the characters of the text parts, in part order
RECURSIVE SourceText(_, _)
SourceText(parts, k) ==
    IF k > Len(parts) THEN <<>>
    ELSE (IF parts[k].type = "text" THEN parts[k].text.s ELSE <<>>)
         \o SourceText(parts, k + 1)

Visible(c) == ~IsSpace(c)

IsToolResult(part) == part.type = "tool_result"

\* C19: a structured user message expands to at most one user message with
\* its text, present exactly when that text is not blank, followed directly
\* by one tool message per tool_result part in part order, each answering
\* the part's tool_use_id; structured content in a role other than user or
\* assistant expands to nothing; plain text expands to exactly one message
\* with the same role and content
C19_ExpansionOrder ==
    pc = "done" =>
        LET out == result.value
        IN  /\ body.content.t = "string" =>
                 out = << [role |-> body.role, content |-> body.content] >>
            /\ (body.content.t = "array" /\ body.role \notin {"user", "assistant"}) =>
                 out = <<>>
            /\ (body.content.t = "array" /\ body.role = "user") =>
                 LET parts == body.content.items
                     text == SelectSeq(SourceText(parts, 1), Visible)
                     results == SelectSeq(parts, IsToolResult)
                     n == IF text # <<>> THEN 1 ELSE 0
                 IN  /\ Len(out) = n + Len(results)
                     /\ n = 1 =>
                          /\ out[1].role = "user"
                          /\ out[1].content.t = "string"
                          /\ SelectSeq(out[1].content.s, Visible) = text
                     /\ \A k \in 1..Len(results) :
                          /\ out[n + k].role = "tool"
                          /\ out[n + k].tool_call_id = results[k].tool_use_id

\* a user message with text and two different tool results gives the user
\* text and then both tool messages
C19_Witness ==
    /\ pc = "done"
    /\ body.role = "user"
    /\ body.content.t = "array"
    /\ Len(result.value) = 3
    /\ result.value[1].role = "user"
    /\ result.value[2].role = "tool"
    /\ result.value[3].role = "tool"
    /\ result.value[2].tool_call_id # result.value[3].tool_call_id

----------------------------------------------------------------------------
(* The validator on its own (C16, C17, C18, C20) *)

MaxTargets == 4

\* the target messages the expansion produces from the source messages
TargetMessages ==
    UNION { { expandMessage(m)[k] : k \in 1..Len(expandMessage(m)) } :
              m \in SourceMessages }

\* openAIMessages, the argument of validateOpenAIToolCalls, still empty
InitValidator ==
    /\ body = Arr(<<>>)
    /\ pc = "build"
    /\ result = Undef

\* the expansion emits one more target message
AppendTarget ==
    /\ pc = "build"
    /\ Len(body.items) < MaxTargets
    /\ \E m \in TargetMessages : body' = Arr(Append(body.items, m))
    /\ UNCHANGED <<pc, result>>

\* validateOpenAIToolCalls(openAIMessages)
CallValidator ==
    /\ pc = "build"
    /\ result' = [threw |-> FALSE, value |-> validateOpenAIToolCalls(body.items)]
    /\ pc' = "done"
    /\ UNCHANGED body

\* validateOpenAIToolCalls applied to what it returned
CallValidatorAgain ==
    /\ pc = "done"
    /\ result' = [threw |-> FALSE, first |-> result.value,
                  value |-> validateOpenAIToolCalls(result.value)]
    /\ pc' = "again"
    /\ UNCHANGED body

NextValidator == AppendTarget \/ CallValidator \/ CallValidatorAgain

SpecValidator == InitValidator /\ [][NextValidator]_vars

IsAssistant(m) == m.role = "assistant"

IsTool(m) == m.role = "tool"

\* the positions of the maximal run of tool messages directly after i
ToolRun(messages, i) ==
    { j \in (i + 1)..Len(messages) :
        \A n \in (i + 1)..j : messages[n].role = "tool" }

\* the invocations of the assistant message at i that the rule keeps
KeptInvocations(messages, i) ==
    LET answered(c) ==
            \E j \in ToolRun(messages, i) :
                /\ "tool_call_id" \in DOMAIN messages[j]
                /\ messages[j].tool_call_id = c.id
    IN  IF "tool_calls" \in DOMAIN messages[i]
        THEN SelectSeq(messages[i].tool_calls, answered)
        ELSE <<>>

\* the assistant messages the rule leaves, from position i on
RECURSIVE ExpectedAssistants(_, _)
ExpectedAssistants(messages, i) ==
    IF i > Len(messages) THEN <<>>
    ELSE (IF ~IsAssistant(messages[i]) THEN <<>>
          ELSE IF KeptInvocations(messages, i) # <<>>
          THEN << [role |-> "assistant", content |-> messages[i].content,
                   tool_calls |-> KeptInvocations(messages, i)] >>
          ELSE IF messages[i].content.t = "string" /\ messages[i].content.s # <<>>
          THEN << [role |-> "assistant", content |-> messages[i].content] >>
          ELSE <<>>)
         \o ExpectedAssistants(messages, i + 1)

\* C16: an invocation of an assistant message is kept exactly when a tool
\* message of the maximal tool run directly after the message answers its
\* id; kept invocations keep their order; the assistant message is kept
\* exactly when it has content or a kept invocation
C16_AssistantRule ==
    pc = "done" =>
        SelectSeq(result.value, IsAssistant) = ExpectedAssistants(body.items, 1)

\* of two invocations only the second is answered in the run, and an
\* assistant message without content loses its only invocation and vanishes
C16_Witness ==
    /\ pc = "done"
    /\ \E i \in 1..Len(body.items) :
         /\ IsAssistant(body.items[i])
         /\ "tool_calls" \in DOMAIN body.items[i]
         /\ Len(body.items[i].tool_calls) = 2
         /\ KeptInvocations(body.items, i) = <<body.items[i].tool_calls[2]>>
         /\ \E k \in 1..Len(result.value) :
              /\ IsAssistant(result.value[k])
              /\ "tool_calls" \in DOMAIN result.value[k]
              /\ result.value[k].tool_calls = <<body.items[i].tool_calls[2]>>
    /\ \E i \in 1..Len(body.items) :
         /\ IsAssistant(body.items[i])
         /\ body.items[i].content = Null
    /\ \A k \in 1..Len(result.value) : result.value[k].content # Null

\* the nearest position before i that holds no tool message, else 0
Owner(messages, i) ==
    LET before == { k \in 1..(i - 1) : ~IsTool(messages[k]) }
    IN  IF before = {} THEN 0
        ELSE CHOOSE k \in before : \A n \in before : n <= k

\* the rule for the tool message at i
ToolAnswersOwner(messages, i) ==
    LET o == Owner(messages, i)
    IN  /\ o # 0
        /\ IsAssistant(messages[o])
        /\ "tool_calls" \in DOMAIN messages[o]
        /\ "tool_call_id" \in DOMAIN messages[i]
        /\ \E n \in 1..Len(messages[o].tool_calls) :
             messages[o].tool_calls[n].id = messages[i].tool_call_id

\* the tool messages the rule leaves, from position i on
RECURSIVE ExpectedTools(_, _)
ExpectedTools(messages, i) ==
    IF i > Len(messages) THEN <<>>
    ELSE (IF IsTool(messages[i]) /\ ToolAnswersOwner(messages, i)
          THEN <<messages[i]>> ELSE <<>>)
         \o ExpectedTools(messages, i + 1)

\* C17: a tool message is kept exactly when the nearest preceding message
\* that is not a tool message exists, is an assistant message and carries
\* an invocation with the tool message's tool_call_id; so a tool message
\* at the start or after a user message is dropped
C17_ToolRule ==
    pc = "done" =>
        SelectSeq(result.value, IsTool) = ExpectedTools(body.items, 1)

\* a tool message at the start is dropped, while the second tool message
\* of the run behind an assistant message is kept through the walk back
C17_Witness ==
    /\ pc = "done"
    /\ Len(body.items) = 4
    /\ IsTool(body.items[1])
    /\ IsAssistant(body.items[2])
    /\ IsTool(body.items[3])
    /\ IsTool(body.items[4])
    /\ body.items[3] # body.items[4]
    /\ result.value = <<body.items[2], body.items[3], body.items[4]>>


\* the k-th smallest element of a set of positions
Nth(positions, k) ==
    CHOOSE x \in positions : Cardinality({ y \in positions : y <= x }) = k

\* short is long with some elements left out, order kept
IsSubSeq(short, long) ==
    \E positions \in SUBSET (1..Len(long)) :
        /\ Cardinality(positions) = Len(short)
        /\ \A k \in 1..Len(short) : short[k] = long[Nth(positions, k)]

\* neither a tool message nor an assistant message with invocations
PassesThrough(m) == ~IsTool(m) /\ ~(IsAssistant(m) /\ "tool_calls" \in DOMAIN m)

\* target is source, or source with its invocation list shortened or removed
SameOrShortened(target, source) ==
    \/ target = source
    \/ /\ IsAssistant(source)
       /\ "tool_calls" \in DOMAIN source
       /\ target.role = source.role
       /\ target.content = source.content
       /\ DOMAIN target \subseteq DOMAIN source
       /\ DOMAIN source \ DOMAIN target \subseteq {"tool_calls"}
       /\ "tool_calls" \in DOMAIN target =>
            IsSubSeq(target.tool_calls, source.tool_calls)

\* C18: the output is the input with some messages left out, in the same
\* order and without duplicates; every message that is neither a tool
\* message nor an assistant message with invocations is in it unchanged;
\* the only change to a message is a shortened invocation list
C18_OrderPreserving ==
    pc = "done" =>
        \E positions \in SUBSET (1..Len(body.items)) :
            /\ Cardinality(positions) = Len(result.value)
            /\ \A k \in 1..Len(result.value) :
                 LET source == body.items[Nth(positions, k)]
                 IN  /\ SameOrShortened(result.value[k], source)
                     /\ PassesThrough(source) => result.value[k] = source
            /\ \A i \in 1..Len(body.items) :
                 PassesThrough(body.items[i]) => i \in positions

\* a user message passes unchanged between an assistant message whose
\* invocation list is shortened and a tool message that is left out
C18_Witness ==
    /\ pc = "done"
    /\ Len(body.items) = 4
    /\ Len(result.value) = 3
    /\ IsAssistant(body.items[1])
    /\ "tool_calls" \in DOMAIN body.items[1]
    /\ Len(body.items[1].tool_calls) = 2
    /\ "tool_calls" \in DOMAIN result.value[1]
    /\ Len(result.value[1].tool_calls) = 1
    /\ result.value[2] = body.items[2]
    /\ body.items[3].role = "user"
    /\ result.value[3] = body.items[3]
    /\ IsTool(body.items[4])

\* C20: validating the validator's own output changes nothing
C20_Idempotent ==
    pc = "again" => result.value = result.first

\* the first pass removed or shortened something and left tool traffic for
\* the second pass to look at
C20_Witness ==
    /\ pc = "again"
    /\ result.first # body.items
    /\ \E k \in 1..Len(result.first) : IsTool(result.first[k])
    /\ \E k \in 1..Len(result.first) :
         IsAssistant(result.first[k]) /\ "tool_calls" \in DOMAIN result.first[k]

----------------------------------------------------------------------------
(* The /oai forwarding handler *)

Minimax ==
    <<"m","i","n","i","m","a","x","/","m","i","n","i","m","a","x","-","m","2">>

\* the own properties of the object literal providerConfigs
providerConfigs ==
    (GlmExacto :> [only |-> <<"z-ai">>,
                   ignore |-> <<"deepinfra", "chutes", "novita">>,
                   allow_fallbacks |-> FALSE,
                   data_collection |-> "deny",
                   zdr |-> TRUE])
    @@ (Minimax :> [only |-> <<"minimax">>,
                    ignore |-> <<"deepinfra", "chutes", "novita">>,
                    allow_fallbacks |-> FALSE,
                    data_collection |-> "deny",
                    zdr |-> TRUE])
    @@ (GlmAir :> [only |-> <<"z-ai">>,
                   ignore |-> <<"deepinfra", "chutes", "novita">>,
                   allow_fallbacks |-> FALSE])
    @@ (Chimera :> [only |-> <<"chutes">>,
                    ignore |-> <<"deepinfra", "novita">>,
                    allow_fallbacks |-> FALSE])

Bool(b) == [t |-> "boolean", b |-> b]

\* ToBoolean of any value, plain objects included
ToBoolean(v) ==
    IF IsObject(v) THEN TRUE
    ELSE IF v.t = "boolean" THEN v.b
    ELSE Truthy(v)

\* the typeof operator
TypeOf(v) ==
    IF IsObject(v) THEN "object"
    ELSE IF v.t \in {"null", "array", "object"} THEN "object"
    ELSE v.t

\* headers.get(name): null when the header is absent
HeadersGet(headers, name) ==
    IF name \in DOMAIN headers THEN headers[name] ELSE Null

\* the first position from k on where s holds c, else 0
RECURSIVE IndexOf(_, _, _)
IndexOf(s, c, k) ==
    IF k > Len(s) THEN 0
    ELSE IF s[k] = c THEN k
    ELSE IndexOf(s, c, k + 1)

\* the members "k":"v",... of a flat JSON object text
RECURSIVE ParseMembers(_)
ParseMembers(s) ==
    LET q2 == IndexOf(s, "\"", 2)
        q4 == IndexOf(s, "\"", q2 + 3)
        rest == SubSeq(s, q4 + 1, Len(s))
        more == ParseMembers(Tail(rest))
        entry == [k |-> SubSeq(s, 2, q2 - 1), v |-> SubSeq(s, q2 + 3, q4 - 1)]
    IN  IF Len(s) < 5 \/ s[1] # "\"" \/ q2 = 0 \/ q2 + 2 > Len(s)
        THEN [ok |-> FALSE, entries |-> <<>>]
        ELSE IF s[q2 + 1] # ":" \/ s[q2 + 2] # "\"" \/ q4 = 0
        THEN [ok |-> FALSE, entries |-> <<>>]
        ELSE IF rest = <<>>
        THEN [ok |-> TRUE, entries |-> <<entry>>]
        ELSE IF rest[1] = "," /\ more.ok
        THEN [ok |-> TRUE, entries |-> <<entry>> \o more.entries]
        ELSE [ok |-> FALSE, entries |-> <<>>]

Digits == {"0", "1", "2", "3", "4", "5", "6", "7", "8", "9"}

\* JSON.parse on the texts a provider header carries here: null, a number,
\* a string, a flat object of string members; any other text is not JSON
JsonParse(text) ==
    IF text = <<"n", "u", "l", "l">>
    THEN [threw |-> FALSE, value |-> Null]
    ELSE IF text # <<>> /\ \A k \in 1..Len(text) : text[k] \in Digits
    THEN [threw |-> FALSE, value |-> Num]
    ELSE IF Len(text) >= 2 /\ text[1] = "\"" /\ IndexOf(text, "\"", 2) = Len(text)
    THEN [threw |-> FALSE, value |-> S(SubSeq(text, 2, Len(text) - 1))]
    ELSE IF text = <<"{", "}">>
    THEN [threw |-> FALSE, value |-> Obj(<<>>)]
    ELSE IF Len(text) >= 2 /\ text[1] = "{" /\ text[Len(text)] = "}"
            /\ ParseMembers(SubSeq(text, 2, Len(text) - 1)).ok
    THEN [threw |-> FALSE,
          value |-> Obj(ParseMembers(SubSeq(text, 2, Len(text) - 1)).entries)]
    ELSE [threw |-> TRUE]

\* headers.get("X-OpenRouter-Provider") || headers.get("X-Provider")
headerVal(headers) ==
    IF ToBoolean(HeadersGet(headers, "x-openrouter-provider"))
    THEN HeadersGet(headers, "x-openrouter-provider")
    ELSE HeadersGet(headers, "x-provider")

\* step 2 of resolveProviderConfig; undefined when the header gives nothing
fromHeader(headers) ==
    LET parsed == JsonParse(headerVal(headers).s)
    IN  IF ~ToBoolean(headerVal(headers)) THEN Undef
        ELSE IF ToBoolean(PropertyLookup(providerConfigs, headerVal(headers).s))
        THEN PropertyLookup(providerConfigs, headerVal(headers).s)
        ELSE IF ~parsed.threw /\ ToBoolean(parsed.value)
                /\ TypeOf(parsed.value) = "object"
        THEN parsed.value
        ELSE Undef

\* step 3 of resolveProviderConfig
fromEnv(envDefault) ==
    IF ToBoolean(envDefault)
       /\ ToBoolean(PropertyLookup(providerConfigs, envDefault.s))
    THEN PropertyLookup(providerConfigs, envDefault.s)
    ELSE Undef

\* mutant: the header is consulted before the body
resolveProviderConfigHeaderFirst(b, headers, envDefault) ==
    LET provider == Get(b, "provider")
    IN  IF ToBoolean(fromHeader(headers)) THEN fromHeader(headers)
        ELSE IF ToBoolean(provider) /\ TypeOf(provider) = "string"
        THEN PropertyLookup(providerConfigs, provider.s)
        ELSE IF ToBoolean(provider) /\ TypeOf(provider) = "object"
        THEN provider
        ELSE fromEnv(envDefault)

resolveProviderConfig(b, headers, envDefault) ==
    LET provider == Get(b, "provider")
    IN  IF ToBoolean(provider) /\ TypeOf(provider) = "string"
        THEN PropertyLookup(providerConfigs, provider.s)
        ELSE IF ToBoolean(provider) /\ TypeOf(provider) = "object"
        THEN provider
        ELSE IF ToBoolean(fromHeader(headers)) THEN fromHeader(headers)
        ELSE fromEnv(envDefault)


\* o with property f set to v
SetProp(o, f, v) == (f :> v) @@ o

\* o without property f
DeleteProp(o, f) == [g \in DOMAIN o \ {f} |-> o[g]]

\* lines 199-208: the resolved directive is written into the body
injectProvider(incoming, resolvedProvider) ==
    LET replaced ==
            IF ~ToBoolean(Get(incoming, "provider"))
               \/ TypeOf(Get(incoming, "provider")) # "object"
            THEN SetProp(incoming, "provider", resolvedProvider)
            ELSE incoming
        mapped == PropertyLookup(providerConfigs, replaced.provider.s)
    IN  IF ~ToBoolean(resolvedProvider) THEN incoming
        ELSE IF TypeOf(replaced.provider) = "string" /\ ToBoolean(mapped)
        THEN SetProp(replaced, "provider", mapped)
        ELSE replaced

\* the map callback of lines 224-238
stripIncomingMessage(message) ==
    IF ToBoolean(message) /\ TypeOf(message) = "object"
    THEN IF HasStr(message, "role") /\ message.role = "tool" THEN Null
         ELSE IF HasStr(message, "role") /\ message.role = "assistant"
                 /\ "tool_calls" \in DOMAIN message
         THEN DeleteProp(message, "tool_calls")
         ELSE message
    ELSE message

\* incoming.messages.map(stripIncomingMessage).filter(Boolean) from k on
RECURSIVE stripIncoming(_, _)
stripIncoming(messages, k) ==
    IF k > Len(messages) THEN <<>>
    ELSE (IF ToBoolean(stripIncomingMessage(messages[k]))
          THEN <<stripIncomingMessage(messages[k])>>
          ELSE <<>>)
         \o stripIncoming(messages, k + 1)

\* lines 211-244: a body for the tool-less model loses its tools
stripForChimera(incoming) ==
    LET isChimera == /\ TypeOf(Get(incoming, "model")) = "string"
                     /\ mapModel(incoming.model.s) = Chimera
        noTools == IF ToBoolean(Get(incoming, "tools"))
                   THEN DeleteProp(incoming, "tools")
                   ELSE incoming
    IN  IF ~isChimera THEN incoming
        ELSE IF TypeOf(Get(noTools, "messages")) = "object"
                /\ ~IsObject(noTools.messages)
                /\ noTools.messages.t = "array"
        THEN SetProp(noTools, "messages",
                     Arr(stripIncoming(noTools.messages.items, 1)))
        ELSE noTools

\* JSON.stringify(incoming) leaves out a property that holds a function
forwardBody(incoming) ==
    IF IsObject(incoming)
    THEN [f \in { g \in DOMAIN incoming : TypeOf(incoming[g]) # "function" } |->
            incoming[f]]
    ELSE incoming

OAI_CHAT_PATH == <<"oai", "v1", "chat", "completions">>

OAI_RESPONSES_PATH == <<"oai", "v1", "responses">>

OAI_MODELS_PATH == <<"oai", "v1", "models">>

\* p.startsWith(`${prefix}/`), a path being its sequence of segments
StartsWithPath(p, prefix) ==
    Len(p) > Len(prefix) /\ SubSeq(p, 1, Len(prefix)) = prefix

shouldHandleOai(p, method) ==
    IF method = "POST" THEN p = OAI_CHAT_PATH \/ p = OAI_RESPONSES_PATH
    ELSE IF method = "GET"
    THEN p = OAI_MODELS_PATH \/ StartsWithPath(p, OAI_MODELS_PATH)
    ELSE FALSE

TextPlain == <<"t","e","x","t","/","p","l","a","i","n",";","c","h","a","r","s","e","t","=","U","T","F","-","8">>

ApplicationJson == <<"a","p","p","l","i","c","a","t","i","o","n","/","j","s","o","n">>

TextEventStream == <<"t","e","x","t","/","e","v","e","n","t","-","s","t","r","e","a","m">>

NoCache == <<"n","o","-","c","a","c","h","e">>

KeepAlive == <<"k","e","e","p","-","a","l","i","v","e">>

\* forwardResp.ok
Ok(forwardResp) == forwardResp.status \in 200..299

\* new Response(await forwardResp.text(), {status}): a text body gets the
\* default content type
errorResponse(forwardResp) ==
    [status |-> forwardResp.status,
     headers |-> ("content-type" :> S(TextPlain)),
     body |-> [of |-> forwardResp.body, buffered |-> TRUE]]

\* mutant: only the request's stream flag selects the passthrough
respondPostFlagOnly(incoming, forwardResp) ==
    LET contentType ==
            IF ToBoolean(HeadersGet(forwardResp.headers, "content-type"))
            THEN forwardResp.headers["content-type"].s
            ELSE <<>>
    IN  IF ~Ok(forwardResp) THEN errorResponse(forwardResp)
        ELSE IF Get(incoming, "stream") = Bool(TRUE)
        THEN [status |-> forwardResp.status,
              headers |-> ("cache-control" :> S(NoCache))
                          @@ ("connection" :> S(KeepAlive))
                          @@ ("content-type" :> S(TextEventStream))
                          @@ forwardResp.headers,
              body |-> [of |-> forwardResp.body, buffered |-> FALSE]]
        ELSE [status |-> forwardResp.status,
              headers |-> ("content-type" :>
                             S(IF contentType # <<>> THEN contentType
                               ELSE ApplicationJson)),
              body |-> [of |-> forwardResp.body, buffered |-> TRUE]]

\* lines 263-289: the response to a forwarded POST
respondPost(incoming, forwardResp) ==
    LET contentType ==
            IF ToBoolean(HeadersGet(forwardResp.headers, "content-type"))
            THEN forwardResp.headers["content-type"].s
            ELSE <<>>
    IN  IF ~Ok(forwardResp) THEN errorResponse(forwardResp)
        ELSE IF Get(incoming, "stream") = Bool(TRUE)
                \/ Includes(contentType, TextEventStream)
        THEN [status |-> forwardResp.status,
              headers |-> ("cache-control" :> S(NoCache))
                          @@ ("connection" :> S(KeepAlive))
                          @@ ("content-type" :> S(TextEventStream))
                          @@ forwardResp.headers,
              body |-> [of |-> forwardResp.body, buffered |-> FALSE]]
        ELSE [status |-> forwardResp.status,
              headers |-> ("content-type" :>
                             S(IF contentType # <<>> THEN contentType
                               ELSE ApplicationJson)),
              body |-> [of |-> forwardResp.body, buffered |-> TRUE]]

\* lines 169-179: the response to a forwarded GET
respondGet(forwardResp) ==
    IF ~Ok(forwardResp) THEN errorResponse(forwardResp)
    ELSE [status |-> forwardResp.status,
          headers |-> forwardResp.headers,
          body |-> [of |-> forwardResp.body, buffered |-> FALSE]]

\* lines 186-189
invalidJsonResponse ==
    [status |-> 400,
     headers |-> ("content-type" :> S(ApplicationJson)),
     body |-> [of |-> "Invalid JSON body", buffered |-> TRUE]]


Nope == <<"n", "o", "p", "e">>

SortByPrice == <<"{","\"","s","o","r","t","\"",":","\"","p","r","i","c","e","\"","}">>

\* the provider field of an inbound body: absent, a known key, an unknown
\* key, a name every object inherits, an inline directive, a number
BodyProviders ==
    { Undef, S(GlmAir), S(Nope), S(<<"c","o","n","s","t","r","u","c","t","o","r">>),
      [only |-> <<"openai">>], Num }

\* an OpenAI-format body for a tool-capable model and one for the tool-less
\* model, the latter with tool traffic to strip
IncomingBase ==
    { [model |-> S(GlmExacto),
       messages |-> Arr(<< [role |-> "user", content |-> S(Hi)] >>)],
      [model |-> S(Chimera),
       tools |-> Arr(<< [type |-> "function"] >>),
       messages |-> Arr(<< [role |-> "user", content |-> S(Hi)],
                           [role |-> "assistant", content |-> Null,
                            tool_calls |-> << [id |-> "t1", type |-> "function"] >>],
                           [role |-> "tool", tool_call_id |-> "t1",
                            content |-> S(Hi)] >>)] }

IncomingBodies ==
    { base
      @@ (IF provider = Undef THEN <<>> ELSE [provider |-> provider])
      @@ (IF stream = Undef THEN <<>> ELSE [stream |-> stream]) :
        base \in IncomingBase,
        provider \in BodyProviders,
        stream \in {Undef, Bool(TRUE), Bool(FALSE)} }

\* what request.json() gives: a rejection, or the decoded value
JsonBodies ==
    { [threw |-> TRUE] }
    \cup { [threw |-> FALSE, value |-> v] : v \in IncomingBodies \cup {Null} }

InboundHeaders ==
    { (IF first = Null THEN <<>> ELSE ("x-openrouter-provider" :> first))
      @@ (IF second = Null THEN <<>> ELSE ("x-provider" :> second)) :
        first \in {Null, S(Minimax), S(Nope), S(SortByPrice)},
        second \in {Null, S(GlmAir), S(Nope), S(<<"n", "u", "l", "l">>)} }

\* env.OPENROUTER_DEFAULT_PROVIDER
EnvDefaults == {Undef, S(GlmExacto), S(Nope)}

Routes ==
    { [method |-> "POST", path |-> OAI_CHAT_PATH],
      [method |-> "POST", path |-> OAI_RESPONSES_PATH],
      [method |-> "GET", path |-> OAI_MODELS_PATH],
      [method |-> "GET", path |-> OAI_MODELS_PATH \o <<"some-model">>],
      [method |-> "GET", path |-> OAI_CHAT_PATH] }

\* a GET request has no body to decode
InboundRequests ==
    { [method |-> route.method, path |-> route.path, headers |-> headers,
       envDefault |-> envDefault, json |-> json] :
        route \in Routes, headers \in InboundHeaders,
        envDefault \in EnvDefaults, json \in JsonBodies }
    \ { request \in
          [method : {"GET"}, path : { route.path : route \in Routes },
           headers : InboundHeaders, envDefault : EnvDefaults,
           json : JsonBodies] : ~request.json.threw }

UpstreamStatuses == {200, 429}

UpstreamContentTypes ==
    { Null, S(ApplicationJson),
      S(TextEventStream \o <<";", " ", "c", "h", "a", "r", "s", "e", "t", "=", "u", "t", "f", "-", "8">>) }

\* what the upstream service may answer
UpstreamResponses ==
    { [status |-> status,
       headers |-> ("x-request-id" :> S(<<"1">>))
                   @@ (IF contentType = Null THEN <<>>
                       ELSE ("content-type" :> contentType)),
       body |-> "upstream body"] :
        status \in UpstreamStatuses, contentType \in UpstreamContentTypes }

InitHandler ==
    /\ body \in InboundRequests
    /\ pc = "start"
    /\ result = Undef

\* handleOaiIfMatch up to its first await: the route test, and for the
\* models routes the fetch
Receive ==
    /\ pc = "start"
    /\ IF ~shouldHandleOai(body.path, body.method)
       THEN /\ result' = [fetches |-> <<>>, response |-> Null]
            /\ pc' = "done"
       ELSE IF body.method = "GET"
       THEN /\ result' = [fetches |-> << [method |-> "GET",
                                          endpoint |-> <<"models">>
                                              \o SubSeq(body.path, 4, Len(body.path))] >>]
            /\ pc' = "fetch"
       ELSE /\ result' = [fetches |-> <<>>]
            /\ pc' = "json"
    /\ UNCHANGED body

\* from the answer of request.json() to the second await: the 400 reply,
\* or the directive, the stripping and the fetch
ReadJson ==
    /\ pc = "json"
    /\ IF body.json.threw
       THEN /\ result' = [fetches |-> <<>>, response |-> invalidJsonResponse]
            /\ pc' = "done"
       ELSE LET incoming == body.json.value
                resolvedProvider ==
                    resolveProviderConfig(incoming, body.headers, body.envDefault)
                forwarded ==
                    stripForChimera(injectProvider(incoming, resolvedProvider))
            IN  IF ToBoolean(resolvedProvider) /\ incoming = Null
                THEN /\ result' = [fetches |-> <<>>, incoming |-> incoming,
                                   resolvedProvider |-> resolvedProvider,
                                   threw |-> "TypeError"]
                     /\ pc' = "done"
                ELSE /\ result' =
                          [incoming |-> forwarded,
                           resolvedProvider |-> resolvedProvider,
                           fetches |-> << [method |-> "POST",
                                           endpoint |->
                                               IF body.path = OAI_CHAT_PATH
                                               THEN <<"chat", "completions">>
                                               ELSE <<"responses">>,
                                           body |-> forwardBody(forwarded)] >>]
                     /\ pc' = "fetch"
    /\ UNCHANGED body

\* mutant: a non-OK answer to the first fetch makes the handler fetch again
UpstreamAnswersRetry ==
    /\ pc = "fetch"
    /\ \E forwardResp \in UpstreamResponses :
         IF ~Ok(forwardResp) /\ Len(result.fetches) < 2
         THEN /\ result' = [result EXCEPT !.fetches = Append(@, @[1])]
              /\ pc' = "fetch"
         ELSE /\ result' = [forwardResp |-> forwardResp,
                            response |-> IF body.method = "GET"
                                         THEN respondGet(forwardResp)
                                         ELSE respondPost(result.incoming, forwardResp)]
                           @@ result
              /\ pc' = "done"
    /\ UNCHANGED body

\* the upstream service answers the fetch and the handler replies
UpstreamAnswers ==
    /\ pc = "fetch"
    /\ \E forwardResp \in UpstreamResponses :
         result' = [forwardResp |-> forwardResp,
                    response |-> IF body.method = "GET"
                                 THEN respondGet(forwardResp)
                                 ELSE respondPost(result.incoming, forwardResp)]
                   @@ result
    /\ pc' = "done"
    /\ UNCHANGED body

NextHandler == Receive \/ ReadJson \/ UpstreamAnswers

SpecHandler == InitHandler /\ [][NextHandler]_vars


\* resolveProviderConfig has run on a decoded body
Resolved == "resolvedProvider" \in DOMAIN result

BodyProvider == Get(body.json.value, "provider")

\* the body's provider field is present as a named key
BodyNamesKey == ~IsObject(BodyProvider) /\ BodyProvider.t = "string" /\ BodyProvider.s # <<>>

\* the body's provider field is present as an inline directive
BodyInline == IsObject(BodyProvider)

\* the header that is read: X-OpenRouter-Provider, else X-Provider
HeaderRead ==
    IF "x-openrouter-provider" \in DOMAIN body.headers
    THEN body.headers["x-openrouter-provider"]
    ELSE IF "x-provider" \in DOMAIN body.headers
    THEN body.headers["x-provider"]
    ELSE Null

\* the directive the header gives: a table entry or an inline JSON object
HeaderDirective ==
    IF HeaderRead = Null THEN Undef
    ELSE IF HeaderRead.s \in DOMAIN providerConfigs
    THEN providerConfigs[HeaderRead.s]
    ELSE IF ~JsonParse(HeaderRead.s).threw
            /\ JsonParse(HeaderRead.s).value.t = "object"
    THEN JsonParse(HeaderRead.s).value
    ELSE Undef

DefaultDirective ==
    IF body.envDefault # Undef /\ body.envDefault.s \in DOMAIN providerConfigs
    THEN providerConfigs[body.envDefault.s]
    ELSE Undef

\* C11: the body's provider field decides when it is present as an inline
\* object or a named key; only without it the header decides, and
\* X-OpenRouter-Provider is read before X-Provider; only when neither gives
\* a directive the process-wide default key decides; the directive
\* resolved is the one forwarded
C11_Precedence ==
    Resolved =>
        /\ BodyInline => result.resolvedProvider = BodyProvider
        /\ BodyNamesKey =>
             result.resolvedProvider = PropertyLookup(providerConfigs, BodyProvider.s)
        /\ (~BodyInline /\ ~BodyNamesKey /\ HeaderDirective # Undef) =>
             result.resolvedProvider = HeaderDirective
        /\ (~BodyInline /\ ~BodyNamesKey /\ HeaderDirective = Undef) =>
             result.resolvedProvider = DefaultDirective
        /\ (TypeOf(result.resolvedProvider) = "object" /\ result.fetches # <<>>) =>
             result.fetches[1].body.provider = result.resolvedProvider

\* both headers and the default name a directive and the body names none:
\* the inline object of X-OpenRouter-Provider is resolved and forwarded
C11_Witness ==
    /\ pc = "fetch"
    /\ Resolved
    /\ BodyProvider = Undef
    /\ HeadersGet(body.headers, "x-openrouter-provider") = S(SortByPrice)
    /\ HeadersGet(body.headers, "x-provider") = S(GlmAir)
    /\ body.envDefault = S(GlmExacto)
    /\ result.resolvedProvider = Obj(<<[k |-> <<"s","o","r","t">>, v |-> <<"p","r","i","c","e">>]>>)
    /\ result.fetches[1].body.provider = result.resolvedProvider

\* the named key a source supplies is not a key of the static table
UnknownKey(v) ==
    /\ ~IsObject(v)
    /\ v.t = "string"
    /\ v.s # <<>>
    /\ v.s \notin DOMAIN providerConfigs
    /\ JsonParse(v.s).threw

\* C12: a named key that is not in the static table, given in the body or
\* in the header that is read, resolves to no directive, whatever the
\* other sources hold
C12_UnknownKeyNoDirective ==
    Resolved =>
        /\ UnknownKey(BodyProvider) => result.resolvedProvider = Undef
        /\ (~BodyInline /\ ~BodyNamesKey /\ UnknownKey(HeaderRead)) =>
             result.resolvedProvider = Undef

C21_OneUpstreamCall ==
    /\ "fetches" \in DOMAIN result => Len(result.fetches) <= 1
    /\ pc = "done" =>
         /\ ~shouldHandleOai(body.path, body.method) =>
              (result.fetches = <<>> /\ result.response = Null)
         /\ (shouldHandleOai(body.path, body.method)
             /\ body.method = "POST" /\ body.json.threw) =>
              (result.fetches = <<>> /\ result.response.status = 400)
         /\ "forwardResp" \in DOMAIN result =>
              /\ Len(result.fetches) = 1
              /\ result.forwardResp.status \notin 200..299 =>
                   /\ result.response.status = result.forwardResp.status
                   /\ result.response.body.of = result.forwardResp.body

\* upstream answers the one fetch of a POST with 429 and the caller gets
\* 429 with the upstream body, no second fetch having been made
C21_Witness ==
    /\ pc = "done"
    /\ body.method = "POST"
    /\ "forwardResp" \in DOMAIN result
    /\ result.forwardResp.status = 429
    /\ Len(result.fetches) = 1
    /\ result.fetches[1].method = "POST"
    /\ result.response.status = 429
    /\ result.response.body.of = result.forwardResp.body

====
